---- MODULE Spec2Model ----
(***************************************************************************)
(* The protein-protein interaction browser: three Streamlit scripts         *)
(* (ppi_basedata.py, ppi_dataapp.py, ppi_nonetwork.py) that load one CSV    *)
(* through a memoised loader, filter it by a single protein and/or a        *)
(* comma-separated protein list, and render a table (Data page) or charts   *)
(* and a network graph (Visualization page).                                *)
(*                                                                          *)
(* One action is one run of the script, top to bottom, as Streamlit runs    *)
(* it on every interaction: load_data(), the page dispatch, the filter and  *)
(* what the page builds from the filtered rows.                             *)
(*                                                                          *)
(* Representation.                                                          *)
(*  - A text is a sequence of one-character strings, so that str.strip and  *)
(*    str.split are computed, not assumed.                                  *)
(*  - A number is a record [nan, num, den] (a rational num/den, den > 0, or *)
(*    NaN); scores are given in ten-thousandths.  Float rounding of         *)
(*    1.0/score is not modelled: the quotient is exact.                     *)
(*  - A DataFrame is [columns, rows]; a row carries its index label idx.    *)
(*  - What matplotlib and the spring-layout solver do with their inputs is  *)
(*    outside the model: the model records what is handed to them.  The     *)
(*    UniProt link list (a pure rendering of the filtered proteins) and the *)
(*    random node palette of ppi_dataapp.py are not modelled.               *)
(***************************************************************************)
EXTENDS Integers, Sequences, FiniteSets, TLC

VARIABLES
    app,             \* which of the three scripts the process runs
    remote,          \* the CSV served at GITHUB_CSV_URL
    cache,           \* the value st.cache_data holds for load_data()
    fetches,         \* how many times pd.read_csv(GITHUB_CSV_URL) ran
    cache_hit,       \* whether the latest load_data() was served from the cache
    loaded,          \* df as load_data() returned it in the latest run
    df,              \* the df object at the end of the latest run
    page,            \* the page of the latest run
    single_protein,  \* the stripped single-protein text
    multi_proteins,  \* the stripped multi-protein text
    protein_list,    \* protein_list of the latest run (<<>> when not built)
    filtered_df,     \* df_filtered / filtered_df at the end of the latest run
    outcome,         \* how the run ended
    colors,          \* bar colours, one per filtered row
    G,               \* the networkx graph
    edge_colors,     \* the colour each edge is drawn in, in G.edges() order
    layout_weights   \* the edge weights handed to nx.spring_layout

vars == <<app, remote, cache, fetches, cache_hit, loaded, df, page,
          single_protein, multi_proteins, protein_list, filtered_df, outcome,
          colors, G, edge_colors, layout_weights>>

-----------------------------------------------------------------------------
(* Bounds *)

MaxRows == 2

MaxFetches == 3

-----------------------------------------------------------------------------
(* Texts *)

Whitespace == {" "}

RECURSIVE LStrip(_)
LStrip(s) ==
    IF s # <<>> /\ Head(s) \in Whitespace THEN LStrip(Tail(s)) ELSE s

RECURSIVE RStrip(_)
RStrip(s) ==
    IF s # <<>> /\ s[Len(s)] \in Whitespace
    THEN RStrip(SubSeq(s, 1, Len(s) - 1))
    ELSE s

Strip(s) == RStrip(LStrip(s))

\* str.split(sep): the pieces between the separators, empty pieces kept;
\* "".split(",") is [""].
RECURSIVE Split(_, _)
Split(s, sep) ==
    IF \A i \in DOMAIN s : s[i] # sep
    THEN <<s>>
    ELSE LET k == CHOOSE i \in DOMAIN s :
                      s[i] = sep /\ \A j \in 1..(i - 1) : s[j] # sep
         IN  <<SubSeq(s, 1, k - 1)>> \o Split(SubSeq(s, k + 1, Len(s)), sep)

ToSet(s) == {s[i] : i \in DOMAIN s}

-----------------------------------------------------------------------------
(* Numbers *)

NaNNum == [nan |-> TRUE, num |-> 0, den |-> 1]

Num(n, d) == [nan |-> FALSE, num |-> n, den |-> d]

Score(v) == Num(v, 10000)

Gt(x, y) == ~x.nan /\ ~y.nan /\ x.num * y.den > y.num * x.den

Ge(x, y) == ~x.nan /\ ~y.nan /\ x.num * y.den >= y.num * x.den

IsZero(x) == ~x.nan /\ x.num = 0

\* x / y for y not zero; NaN when either is NaN.
Div(x, y) ==
    IF x.nan \/ y.nan THEN NaNNum
    ELSE IF y.num > 0 THEN Num(x.num * y.den, x.den * y.num)
    ELSE Num(-(x.num * y.den), x.den * (-y.num))

\* f"{score:.2f}": the score in hundredths, rounded to nearest; "nan" for NaN.
Format2(x) ==
    IF x.nan THEN [nan |-> TRUE, cents |-> 0]
    ELSE LET mag == IF x.num < 0 THEN -x.num ELSE x.num
             c   == (mag * 200 + x.den) \div (2 * x.den)
         IN  [nan |-> FALSE, cents |-> IF x.num < 0 THEN -c ELSE c]

-----------------------------------------------------------------------------
(* The dataset and load_data *)

NaN == <<"NaN">>

NoCache == [columns |-> <<"(no entry)">>, rows |-> <<>>]

EmptyDataFrame == [columns |-> <<>>, rows |-> <<>>]

Columns == <<"Protein_A", "Protein_B", "combined_score">>

\* pd.read_csv's default handling of a text cell: an empty cell is NaN.
ParseText(cell) == IF cell = <<>> THEN NaN ELSE cell

\* pd.read_csv: the rows under a RangeIndex, the column names stripped.
ReadCsv(csv) ==
    [columns |-> Columns,
     rows    |-> [i \in 1..Len(csv) |->
                    [idx            |-> i - 1,
                     Protein_A      |-> ParseText(csv[i].Protein_A),
                     Protein_B      |-> ParseText(csv[i].Protein_B),
                     combined_score |-> csv[i].combined_score]]]

\* The mutant: the memoisation lost.
CacheHitNever(c) == FALSE

\* @st.cache_data: a call after the first is served from the cache.
CacheHit(c) == c # NoCache

\* load_data() when the cache misses: the parsed CSV, or the empty DataFrame
\* of the except branch.
LoadData(ok) == IF ok THEN ReadCsv(remote) ELSE EmptyDataFrame

-----------------------------------------------------------------------------
(* The filter *)

IsEmpty(d) == d.columns = <<>> \/ d.rows = <<>>

HasColumn(d, c) == \E i \in DOMAIN d.columns : d.columns[i] = c

SingleMask(row, p) == row.Protein_A = p \/ row.Protein_B = p

Isin(v, list) == \E i \in DOMAIN list : list[i] = v

\* The mutant: only the first endpoint is tested.
MultiMaskFirstOnly(row, list) == Isin(row.Protein_A, list)

MultiMask(row, list) == Isin(row.Protein_A, list) \/ Isin(row.Protein_B, list)

\* df[(df["Protein_A"] == p) | (df["Protein_B"] == p)]
SingleFilter(d, p) ==
    [columns |-> d.columns,
     rows    |-> SelectSeq(d.rows, LAMBDA r : SingleMask(r, p))]

\* df[df["Protein_A"].isin(list) | df["Protein_B"].isin(list)]
MultiFilter(d, list) ==
    [columns |-> d.columns,
     rows    |-> SelectSeq(d.rows, LAMBDA r : MultiMask(r, list))]

\* [p.strip() for p in multi_proteins.split(",")]
ProteinList(multi) ==
    LET parts == Split(multi, ",") IN [i \in DOMAIN parts |-> Strip(parts[i])]

\* The mutant: the list filter indexes the single-protein result.
MultiFilterBaseChained(d, current) == current

\* The frame the multi-protein mask indexes: df, not the single-protein result.
MultiFilterBase(d, current) == d

\* The two filter steps.  err is the KeyError of df["Protein_A"] on a frame
\* without that column.
Filter(d, single, multi) ==
    LET keyErr1 == single # <<>> /\ ~HasColumn(d, "Protein_A")
        step1   == IF single # <<>> /\ ~keyErr1
                   THEN SingleFilter(d, single)
                   ELSE d
        plist   == IF multi # <<>> /\ ~keyErr1 THEN ProteinList(multi) ELSE <<>>
        keyErr2 == ~keyErr1 /\ multi # <<>> /\ ~HasColumn(d, "Protein_A")
        step2   == IF multi # <<>> /\ ~keyErr1 /\ ~keyErr2
                   THEN MultiFilter(MultiFilterBase(d, step1), plist)
                   ELSE step1
    IN  [err          |-> keyErr1 \/ keyErr2,
         protein_list |-> plist,
         result       |-> step2]

-----------------------------------------------------------------------------
(* The bar chart *)

Pink == [hex |-> "#ff69b4"]

Blue == [hex |-> "#3498db"]

Purple == [hex |-> "#9b59b6"]

Gray == [hex |-> "#999999"]

HighCut == Num(9, 10)

MediumCut == Num(7, 10)

\* The mutant: the upper threshold made exclusive.
BarColorExclusive(s) ==
    IF Gt(s, HighCut) THEN Pink ELSE IF Ge(s, MediumCut) THEN Blue ELSE Purple

\* "#ff69b4" if s >= 0.9 else "#3498db" if s >= 0.7 else "#9b59b6"
BarColor(s) ==
    IF Ge(s, HighCut) THEN Pink ELSE IF Ge(s, MediumCut) THEN Blue ELSE Purple

Arrow == <<" ", "<->", " ">>

\* filtered_df["interaction"] = filtered_df["Protein_A"] + " <-> " + filtered_df["Protein_B"]
\* (the source writes the arrow as one character); NaN where an endpoint is NaN.
AddInteraction(d) ==
    [columns |-> Append(d.columns, "interaction"),
     rows    |-> [i \in DOMAIN d.rows |->
                    LET r == d.rows[i] IN
                    [idx            |-> r.idx,
                     Protein_A      |-> r.Protein_A,
                     Protein_B      |-> r.Protein_B,
                     combined_score |-> r.combined_score,
                     interaction    |-> IF r.Protein_A = NaN \/ r.Protein_B = NaN
                                        THEN NaN
                                        ELSE r.Protein_A \o Arrow \o r.Protein_B]]]

-----------------------------------------------------------------------------
(* The graph *)

Zero == Num(0, 1)

One == Num(1, 1)

EmptyGraph == [nodes |-> <<>>, adj |-> <<>>, attr |-> <<>>]

\* distance = 1.0 / score if score > 0 else 1.0
Distance(score) == IF Gt(score, Zero) THEN Div(One, score) ELSE One

\* The attributes add_edge is given for a row.
EdgeAttrs(script, row) ==
    IF script = "basedata"
    THEN [weight |-> Distance(row.combined_score),
          label  |-> Format2(row.combined_score)]
    ELSE [weight |-> row.combined_score]

AddNode(g, n) ==
    IF Isin(n, g.nodes) THEN g
    ELSE [g EXCEPT !.nodes = Append(@, n), !.adj = @ @@ (n :> <<>>)]

\* The mutant: an edge already present keeps its attributes.
UpdateAttrsKeepFirst(old, new) == old @@ new

\* dict.update: the new attributes replace the old ones of the same name.
UpdateAttrs(old, new) == new @@ old

\* nx.Graph.add_edge(a, b, **attrs)
AddEdge(g, a, b, attrs) ==
    LET g1   == AddNode(AddNode(g, a), b)
        adj1 == [g1.adj EXCEPT ![a] = IF Isin(b, @) THEN @ ELSE Append(@, b)]
        adj2 == [adj1 EXCEPT ![b] = IF Isin(a, @) THEN @ ELSE Append(@, a)]
    IN  [nodes |-> g1.nodes,
         adj   |-> adj2,
         attr  |-> IF {a, b} \in DOMAIN g.attr
                   THEN [g.attr EXCEPT ![{a, b}] = UpdateAttrs(@, attrs)]
                   ELSE g.attr @@ ({a, b} :> attrs)]

\* for _, row in filtered_df.iterrows(): G.add_edge(...)
RECURSIVE BuildFrom(_, _, _, _)
BuildFrom(script, rows, k, g) ==
    IF k > Len(rows) THEN g
    ELSE BuildFrom(script, rows, k + 1,
                   AddEdge(g, rows[k].Protein_A, rows[k].Protein_B,
                           EdgeAttrs(script, rows[k])))

BuildGraph(script, rows) == BuildFrom(script, rows, 1, EmptyGraph)

\* G.edges(): each node in insertion order with its neighbours not yet seen.
RECURSIVE EdgesFrom(_, _, _)
EdgesFrom(g, i, seen) ==
    IF i > Len(g.nodes) THEN <<>>
    ELSE LET n  == g.nodes[i]
             nb == SelectSeq(g.adj[n], LAMBDA m : m \notin seen)
         IN  [j \in 1..Len(nb) |-> <<n, nb[j]>>] \o EdgesFrom(g, i + 1, seen \cup {n})

Edges(g) == EdgesFrom(g, 1, {})

\* max(edge_weights): the first item, replaced by each later item greater than it.
RECURSIVE PyMaxFrom(_, _, _)
PyMaxFrom(ws, k, m) ==
    IF k > Len(ws) THEN m
    ELSE PyMaxFrom(ws, k + 1, IF Gt(ws[k], m) THEN ws[k] ELSE m)

PyMax(ws) == PyMaxFrom(ws, 2, ws[1])

\* edge_weights = [G[u][v]['weight'] for u, v in G.edges()]
EdgeWeights(g) ==
    LET es == Edges(g) IN [i \in DOMAIN es |-> g.attr[{es[i][1], es[i][2]}].weight]

\* The weight attribute of every edge, as spring_layout reads it.
LayoutWeights(g) == [p \in DOMAIN g.attr |-> g.attr[p].weight]

-----------------------------------------------------------------------------
(* The pages *)

Blank ==
    [df |-> EmptyDataFrame, single_protein |-> <<>>, multi_proteins |-> <<>>,
     protein_list |-> <<>>, filtered_df |-> EmptyDataFrame, outcome |-> "home",
     colors |-> <<>>, G |-> EmptyGraph, edge_colors |-> <<>>,
     layout_weights |-> <<>>]

HomePage(d) == [Blank EXCEPT !.df = d]

\* The filter, common to both pages; outcome is settled by the page.
Filtered(d, single, multi) ==
    LET f == Filter(d, single, multi) IN
    [Blank EXCEPT !.df = d, !.single_protein = single, !.multi_proteins = multi,
                  !.protein_list = f.protein_list, !.filtered_df = f.result,
                  !.outcome = IF f.err THEN "KeyError"
                              ELSE IF IsEmpty(f.result) THEN "empty" ELSE "shown"]

DataPage(d, single, multi) == Filtered(d, single, multi)

\* The charts of ppi_basedata.py and ppi_nonetwork.py.  The new column is
\* set on filtered_df, which is df itself when both queries are blank.
BarCharts(script, r) ==
    LET fd == AddInteraction(r.filtered_df)
        g  == IF script = "basedata" THEN BuildGraph(script, fd.rows) ELSE EmptyGraph
    IN  [r EXCEPT !.filtered_df = fd,
                  !.df = IF r.single_protein = <<>> /\ r.multi_proteins = <<>>
                         THEN fd ELSE @,
                  !.colors = [i \in DOMAIN fd.rows |-> BarColor(fd.rows[i].combined_score)],
                  !.G = g,
                  !.layout_weights = LayoutWeights(g),
                  !.edge_colors = [i \in DOMAIN Edges(g) |-> Gray]]

\* The graph of ppi_dataapp.py: the edge colours are computed before the
\* layout, and divide by the largest weight.  The scores of an iterrows() row
\* of a frame with text columns are Python floats, so a zero divisor raises
\* ZeroDivisionError and the run ends there.
CoolGraph(script, r) ==
    LET g  == BuildGraph(script, r.filtered_df.rows)
        ws == EdgeWeights(g)
        m  == PyMax(ws)
    IN  IF IsZero(m)
        THEN [r EXCEPT !.G = g, !.outcome = "ZeroDivisionError"]
        ELSE [r EXCEPT !.G = g,
                       !.edge_colors = [i \in DOMAIN ws |->
                                          [cmap |-> "cool", x |-> Div(ws[i], m)]],
                       !.layout_weights = LayoutWeights(g)]

VisualizationPage(script, d, single, multi) ==
    LET r == Filtered(d, single, multi) IN
    IF r.outcome # "shown" THEN r
    ELSE IF script = "dataapp" THEN CoolGraph(script, r)
    ELSE BarCharts(script, r)

-----------------------------------------------------------------------------
(* One run of the script *)

\* The run's result for a frame d that load_data() returned.
PageResult(d, pg, single_raw, multi_raw) ==
    IF pg = "Home" THEN HomePage(d)
    ELSE IF pg = "Data" THEN DataPage(d, Strip(single_raw), Strip(multi_raw))
    ELSE VisualizationPage(app, d, Strip(single_raw), Strip(multi_raw))

RunScript(pg, single_raw, multi_raw) ==
    \E ok \in IF CacheHit(cache) THEN {TRUE} ELSE BOOLEAN :
      \E d \in {IF CacheHit(cache) THEN cache ELSE LoadData(ok)} :
        \E r \in {PageResult(d, pg, single_raw, multi_raw)} :
            /\ cache' = d
            /\ cache_hit' = CacheHit(cache)
            /\ fetches' = IF CacheHit(cache) \/ fetches >= MaxFetches
                          THEN fetches ELSE fetches + 1
            /\ loaded' = d
            /\ df' = r.df
            /\ page' = pg
            /\ single_protein' = r.single_protein
            /\ multi_proteins' = r.multi_proteins
            /\ protein_list' = r.protein_list
            /\ filtered_df' = r.filtered_df
            /\ outcome' = r.outcome
            /\ colors' = r.colors
            /\ G' = r.G
            /\ edge_colors' = r.edge_colors
            /\ layout_weights' = r.layout_weights
            /\ UNCHANGED <<app, remote>>

Scripts == {"basedata", "dataapp", "nonetwork"}

RECURSIVE SeqsUpTo(_, _)
SeqsUpTo(S, n) ==
    IF n = 0 THEN {<<>>}
    ELSE LET shorter == SeqsUpTo(S, n - 1)
         IN  shorter \cup {Append(q, x) : q \in {t \in shorter : Len(t) = n - 1}, x \in S}

InitWith(Rows) ==
    /\ app \in Scripts
    /\ remote \in SeqsUpTo(Rows, MaxRows)
    /\ cache = NoCache
    /\ fetches = 0
    /\ cache_hit = FALSE
    /\ loaded = NoCache
    /\ df = NoCache
    /\ page = "none"
    /\ single_protein = <<>>
    /\ multi_proteins = <<>>
    /\ protein_list = <<>>
    /\ filtered_df = EmptyDataFrame
    /\ outcome = "none"
    /\ colors = <<>>
    /\ G = EmptyGraph
    /\ edge_colors = <<>>
    /\ layout_weights = <<>>

P1 == <<"P", "1">>

P2 == <<"P", "2">>

P3 == <<"P", "3">>

Csv(a, b, s) == [Protein_A |-> a, Protein_B |-> b, combined_score |-> s]

-----------------------------------------------------------------------------
(* The query specification: datasets with empty cells, many query texts *)

QueryRows ==
    {Csv(P1, P2, Score(8000)), Csv(P3, P3, Score(8000)), Csv(<<>>, P1, Score(8000)),
     Csv(P2, <<>>, Score(8000))}

SingleInputs == {<<>>, P1, <<" ">> \o P3 \o <<" ">>}

MultiInputs ==
    {<<>>,
     P1,
     P1 \o <<",">> \o P2,
     <<" ">> \o P1 \o <<" ", ",", " ">> \o P3 \o <<" ">>,
     P1 \o <<",", ",">> \o P2,
     <<",">> \o P3,
     P2 \o <<",">>,
     <<",">>,
     P3 \o <<",", " ", ",">>,
     <<"P", "9">>}

RunHome == RunScript("Home", <<>>, <<>>)

RunData == \E s \in SingleInputs, m \in MultiInputs : RunScript("Data", s, m)

RunVisualization ==
    \E s \in SingleInputs, m \in MultiInputs : RunScript("Visualization", s, m)

InitQuery == InitWith(QueryRows)

NextQuery == RunHome \/ RunData \/ RunVisualization

SpecQuery == InitQuery /\ [][NextQuery]_vars

-----------------------------------------------------------------------------
(* The graph specification: datasets with many scores, few query texts *)

GraphScores ==
    {NaNNum, Score(-5000), Score(0), Score(5000), Score(6999), Score(7000),
     Score(8999), Score(9000)}

GraphRows ==
    {Csv(P1, P2, s) : s \in GraphScores}
    \cup {Csv(P2, P1, Score(9000)), Csv(P2, P3, Score(5000))}

GraphSingles == {<<>>, P2}

GraphMultis == {<<>>, P1 \o <<",">> \o P3}

ViewHome == RunScript("Home", <<>>, <<>>)

ViewData == \E s \in GraphSingles, m \in GraphMultis : RunScript("Data", s, m)

ViewVisualization ==
    \E s \in GraphSingles, m \in GraphMultis : RunScript("Visualization", s, m)

InitGraph == InitWith(GraphRows)

NextGraph == ViewHome \/ ViewData \/ ViewVisualization

SpecGraph == InitGraph /\ [][NextGraph]_vars

-----------------------------------------------------------------------------
(* Helpers of the properties *)

Queried == page \in {"Data", "Visualization"}

FilterRan == Queried /\ outcome # "KeyError"

GraphBuilt ==
    /\ page = "Visualization"
    /\ app # "nonetwork"
    /\ outcome \in {"shown", "ZeroDivisionError"}

LayoutCalled == GraphBuilt /\ outcome = "shown"

TrimmedEntries(text) == {Strip(e) : e \in ToSet(Split(text, ","))}

NonEmptyEntries(text) == TrimmedEntries(text) \ {<<>>}

Indices(d) == {d.rows[i].idx : i \in DOMAIN d.rows}

\* The index labels of the loaded rows with an endpoint in S.
Matching(S) ==
    {loaded.rows[i].idx : i \in {j \in DOMAIN loaded.rows :
        loaded.rows[j].Protein_A \in S \/ loaded.rows[j].Protein_B \in S}}

\* Every filtered row is the loaded row of its index label, in the loaded order.
RowsOfLoaded ==
    /\ \A i \in DOMAIN filtered_df.rows : \E j \in DOMAIN loaded.rows :
          /\ loaded.rows[j].idx = filtered_df.rows[i].idx
          /\ loaded.rows[j].Protein_A = filtered_df.rows[i].Protein_A
          /\ loaded.rows[j].Protein_B = filtered_df.rows[i].Protein_B
          /\ loaded.rows[j].combined_score = filtered_df.rows[i].combined_score
    /\ \A i, j \in DOMAIN filtered_df.rows :
          i < j => filtered_df.rows[i].idx < filtered_df.rows[j].idx

PairOf(r) == {r.Protein_A, r.Protein_B}

\* The filtered rows that are the last of their unordered pair.
LastRows ==
    {i \in DOMAIN filtered_df.rows : \A j \in DOMAIN filtered_df.rows :
        j > i => PairOf(filtered_df.rows[j]) # PairOf(filtered_df.rows[i])}

LastScore(pair) ==
    LET i == CHOOSE k \in LastRows : PairOf(filtered_df.rows[k]) = pair
    IN  filtered_df.rows[i].combined_score

NumEq(x, y) == ~x.nan /\ ~y.nan /\ x.num * y.den = y.num * x.den

EdgePair(e) == {e[1], e[2]}

-----------------------------------------------------------------------------
(* C1: with a multi-protein query whose protein set S is not empty, a row   *)
(* of the dataset is in the filter result if and only if its Protein_A or   *)
(* its Protein_B is in S.                                                   *)
C1_MultiFilterSoundComplete ==
    (FilterRan /\ multi_proteins # <<>> /\ NonEmptyEntries(multi_proteins) # {})
    => /\ Indices(filtered_df) = Matching(NonEmptyEntries(multi_proteins))
       /\ RowsOfLoaded

\* An empty entry is in the list, a row with a missing endpoint is left out
\* and another row is kept.
C1_Witness ==
    /\ FilterRan /\ multi_proteins # <<>>
    /\ NonEmptyEntries(multi_proteins) # {}
    /\ <<>> \in ToSet(protein_list)
    /\ filtered_df.rows # <<>>
    /\ \E i \in DOMAIN loaded.rows :
          /\ loaded.rows[i].Protein_A = NaN
          /\ loaded.rows[i].idx \notin Indices(filtered_df)

(* C2: with both queries given, the result is the multi-protein filter over *)
(* the whole dataset, whatever the single protein is.                       *)
C2_MultiOverridesSingle ==
    (FilterRan /\ single_protein # <<>> /\ multi_proteins # <<>>)
    => /\ Indices(filtered_df) = Matching(TrimmedEntries(multi_proteins))
       /\ RowsOfLoaded

\* Both given, and the result is neither the intersection nor the union
\* with the rows of the single protein.
C2_Witness ==
    /\ FilterRan /\ single_protein # <<>> /\ multi_proteins # <<>>
    /\ Indices(filtered_df) # {}
    /\ Matching({single_protein}) # {}
    /\ Indices(filtered_df) \cap Matching({single_protein}) # Indices(filtered_df)
    /\ Indices(filtered_df) \cup Matching({single_protein}) # Indices(filtered_df)

(* C3: the identifiers used for matching are exactly the trimmed entries    *)
(* that are not empty: an empty entry is dropped.                           *)
C3_EmptyEntriesDropped ==
    (FilterRan /\ multi_proteins # <<>>)
    => ToSet(protein_list) = NonEmptyEntries(multi_proteins)

(* C4: after a failed load every query on the Data and Visualization pages  *)
(* ends in the empty state, none in an error.                               *)
C4_FailedLoadEmptyState ==
    (Queried /\ loaded = EmptyDataFrame) => outcome = "empty"

(* C5: the dataset is never modified: after a run it has the rows and the   *)
(* columns load_data() returned.                                            *)
C5_DatasetNeverModified ==
    page # "none" => (df = loaded /\ cache = loaded)

(* C6: the remote fetch runs at most once, and every load after the first   *)
(* returns the memoised value without fetching.                             *)
C6_FetchOnce ==
    /\ [](fetches <= 1)
    /\ [][cache # NoCache
          => (cache' = cache /\ loaded' = cache /\ fetches' = fetches)]_vars

\* A run served from the cache after the one fetch.
C6_Witness == cache_hit /\ fetches = 1 /\ loaded = cache /\ page # "none"

(* C7: the graph has one edge per unordered protein pair of the filtered    *)
(* rows, carrying the attributes of the last row of the pair.               *)
C7_LastRowWins ==
    GraphBuilt =>
        LET es == Edges(G) IN
        /\ \A i, j \in DOMAIN es : i # j => EdgePair(es[i]) # EdgePair(es[j])
        /\ {EdgePair(es[i]) : i \in DOMAIN es}
              = {PairOf(filtered_df.rows[i]) : i \in DOMAIN filtered_df.rows}
        /\ DOMAIN G.attr = {EdgePair(es[i]) : i \in DOMAIN es}
        /\ \A i \in LastRows :
              G.attr[PairOf(filtered_df.rows[i])] = EdgeAttrs(app, filtered_df.rows[i])

\* Two rows of one pair, reversed and with different scores, and one edge.
C7_Witness ==
    /\ GraphBuilt
    /\ Len(filtered_df.rows) = 2
    /\ filtered_df.rows[1].Protein_A = filtered_df.rows[2].Protein_B
    /\ filtered_df.rows[1].Protein_B = filtered_df.rows[2].Protein_A
    /\ filtered_df.rows[1].Protein_A # filtered_df.rows[1].Protein_B
    /\ filtered_df.rows[1].combined_score # filtered_df.rows[2].combined_score
    /\ Len(Edges(G)) = 1

(* C8: every edge carries distance 1/score for a score above 0 and 1.0      *)
(* otherwise, and building the graph never divides by zero.                 *)
C8_DistanceOrFallback ==
    GraphBuilt =>
        /\ outcome # "ZeroDivisionError"
        /\ \A p \in DOMAIN G.attr :
              IF Gt(LastScore(p), Zero)
              THEN NumEq(G.attr[p].weight, Div(One, LastScore(p)))
              ELSE NumEq(G.attr[p].weight, One)

C10_AttractionMonotone ==
    LayoutCalled =>
        \A p, q \in DOMAIN layout_weights :
            (Gt(LastScore(p), Zero) /\ Gt(LastScore(q), LastScore(p)))
            => Ge(layout_weights[q], layout_weights[p])

====
